---- MODULE Spec2Model ----
(***************************************************************************)
(* Receipt OCR service (OCRService, src/unnamed/part_000): the recognition *)
(* orchestrator recognizeReceipt and the text parsing pipeline             *)
(* parseReceiptText / extractItemFromLine / isValidItem /                  *)
(* extractTotalAmount.                                                     *)
(*                                                                         *)
(* Strings are sequences of characters.  A character is a TLA+ string:     *)
(* ASCII characters stand for themselves, an ideograph is written as its   *)
(* upper-case pinyin ("HE","JI" is 合计), "YEN" is ¥, "TIMES" is ×,        *)
(* "FWCOLON" is the full-width colon ：.                                   *)
(*                                                                         *)
(* Amounts (parseFloat results) are exact decimals held as an integer      *)
(* number of hundredths; quantities (parseInt results) are integers.       *)
(***************************************************************************)
EXTENDS Integers, Sequences, FiniteSets, TLC

(***************************************************************************)
(* Characters and character classes of the regular expressions.            *)
(***************************************************************************)
DigitSeq == <<"0", "1", "2", "3", "4", "5", "6", "7", "8", "9">>
UpperSeq == <<"A", "B", "C", "D", "E", "F", "G", "H", "I", "J", "K", "L", "M",
              "N", "O", "P", "Q", "R", "S", "T", "U", "V", "W", "X", "Y", "Z">>
LowerSeq == <<"a", "b", "c", "d", "e", "f", "g", "h", "i", "j", "k", "l", "m",
              "n", "o", "p", "q", "r", "s", "t", "u", "v", "w", "x", "y", "z">>

Digits == {DigitSeq[i] : i \in 1..10}
Uppers == {UpperSeq[i] : i \in 1..26}
Lowers == {LowerSeq[i] : i \in 1..26}

\* The ideographs (range 一-龥) that occur in the patterns of the
\* code and in the transcripts of the model.
\* Homophones carry a digit: "SHI1" 市, "SHI2" 实, "SHI3" 时; "DIAN" 店,
\* "DIAN2" 电; "YING" 应, "YING2" 营, "YING3" 迎; "HUI" 惠, "HUI2" 会;
\* "JI" 计, "JI2" 积; "YOU" 优, "YOU2" 有; "E2" 额.  "PU" 铺, "MOU" 某,
\* "LU" 路, "HAO" 号, "CHENG" 称, "JIA" 价, "XIANG" 香, "JIAO" 蕉.
Han == {"SHOU", "JU", "FA", "PIAO", "XIAO", "GOU", "WU", "QING", "DAN",
        "DIAN", "MING", "SHANG", "CHAO", "SHI1", "BIAN", "LI",
        "DI", "ZHI", "DIAN2", "HUA", "RI", "QI", "SHI3", "JIAN",
        "YIN", "YUAN", "YING2", "YE",
        "HE", "JI", "ZONG", "YING", "SHI2",
        "ZHAO", "LING", "QIAN",
        "XIE", "HUAN", "YING3", "HUI", "GU",
        "HUI2", "JI2", "FEN",
        "KUAN", "YOU", "ZHE", "KOU",
        "E2", "JIN",
        "SHU", "LIANG",
        "PING", "GUO", "KE", "LE", "MIAN", "BAO", "NIU", "NAI", "PIN",
        "MEI", "YOU2", "XIN", "XI", "BIAO", "TI",
        "PU", "MOU", "LU", "HAO", "CHENG", "JIA", "XIANG", "JIAO"}

\* \s of the regular expressions and the characters String.trim removes.
Whitespace == {" ", "\t", "\r", "\n"}
\* . of the regular expressions: every character but a line terminator.
LineTerminators == {"\n", "\r"}

IsDigit(c) == c \in Digits
IsSpace(c) == c \in Whitespace
IsDot(c) == c \notin LineTerminators
IsLetterOrHan(c) == c \in Han \/ c \in Lowers \/ c \in Uppers

\* The flag i of the patterns: letters compare by their lower-case form.
ToLower(c) ==
  IF c \in Uppers THEN LowerSeq[CHOOSE i \in 1..26 : UpperSeq[i] = c] ELSE c

DigitVal(c) == (CHOOSE i \in 1..10 : DigitSeq[i] = c) - 1

(***************************************************************************)
(* String operations.  An operator takes what it computes once as a        *)
(* parameter of a second operator, where the code holds it in a local.     *)
(***************************************************************************)
Min(S) == CHOOSE x \in S : \A y \in S : x <= y
Largest(S) == CHOOSE x \in S : \A y \in S : y <= x

\* The character at index p, a line terminator beyond the ends of s.
CharAt(s, p) == IF p >= 1 /\ p <= Len(s) THEN s[p] ELSE "\n"

\* The keyword kw (in lower case) occurs in s at index p, ignoring case.
MatchesAt(s, p, kw) ==
  /\ p >= 1
  /\ p + Len(kw) - 1 <= Len(s)
  /\ \A i \in 1..Len(kw) : ToLower(s[p + i - 1]) = kw[i]

\* String.prototype.includes, case-sensitive.
Includes(s, kw) ==
  \E p \in 1..Len(s) :
    /\ p + Len(kw) - 1 <= Len(s)
    /\ \A i \in 1..Len(kw) : s[p + i - 1] = kw[i]

\* String.prototype.trim.
TrimTo(s, keep) ==
  IF keep = {} THEN <<>> ELSE SubSeq(s, Min(keep), Largest(keep))

Trim(s) == TrimTo(s, {i \in 1..Len(s) : ~IsSpace(s[i])})

\* text.split('\n'): the pieces between the newlines, empty pieces kept.
RECURSIVE SplitFrom(_, _)
\* nl is the index of the first newline from index from on, Len(text) + 1
\* when there is none.
SplitAt(text, from, nl) ==
  IF nl > Len(text) THEN <<SubSeq(text, from, Len(text))>>
  ELSE <<SubSeq(text, from, nl - 1)>> \o SplitFrom(text, nl + 1)

SplitFrom(text, from) ==
  SplitAt(text, from,
          Min({i \in from..Len(text) : text[i] = "\n"} \cup {Len(text) + 1}))

Split(text) == SplitFrom(text, 1)

\* Array.prototype.filter(line => line.trim()): the lines that are not blank.
RECURSIVE NonBlank(_)
NonBlank(ls) ==
  IF ls = <<>> THEN <<>>
  ELSE IF Trim(Head(ls)) = <<>> THEN NonBlank(Tail(ls))
       ELSE <<Head(ls)>> \o NonBlank(Tail(ls))

\* The index after the longest run of digits (of whitespace) that starts at p.
RECURSIVE DigitRunEnd(_, _)
DigitRunEnd(s, p) ==
  IF p <= Len(s) /\ IsDigit(s[p]) THEN DigitRunEnd(s, p + 1) ELSE p

RECURSIVE SpaceRunEnd(_, _)
SpaceRunEnd(s, p) ==
  IF p <= Len(s) /\ IsSpace(s[p]) THEN SpaceRunEnd(s, p + 1) ELSE p

DigitAt(s, p) == p >= 1 /\ p <= Len(s) /\ IsDigit(s[p])

\* parseInt of the digits s[p..q-1].
RECURSIVE ParseInt(_, _, _)
ParseInt(s, p, q) ==
  IF q <= p THEN 0 ELSE ParseInt(s, p, q - 1) * 10 + DigitVal(s[q - 1])

\* The greedy match of \d+(?:\.\d+)? at index p, where s[p] is a digit.
\* g is the index after the integer digits, h the index after the match.
\* The value is parseFloat of the matched text, in hundredths (transcripts
\* carry at most two decimal places).
FractionEnd(s, g) ==
  IF g <= Len(s) /\ s[g] = "." /\ DigitAt(s, g + 1)
  THEN DigitRunEnd(s, g + 1) ELSE g

Hundredths(s, g, h) ==
  IF h = g THEN 0
  ELSE DigitVal(s[g + 1]) * 10 + (IF h > g + 2 THEN DigitVal(s[g + 2]) ELSE 0)

NumberBetween(s, p, g, h) ==
  [end |-> h, value |-> ParseInt(s, p, g) * 100 + Hundredths(s, g, h)]

NumberFrom(s, p, g) == NumberBetween(s, p, g, FractionEnd(s, g))

NumberAt(s, p) == NumberFrom(s, p, DigitRunEnd(s, p))

(***************************************************************************)
(* isNonItemLine, isValidItem, couldBeProductName.                         *)
(***************************************************************************)
\* The alternatives of the anchored keyword patterns of isNonItemLine:
\* 收据 发票 小票 receipt 购物清单 / 店名 商店 超市 便利店 / 地址 电话 tel phone /
\* 日期 时间 date time / 收银员 cashier 营业员 / 合计 总计 小计 total subtotal
\* 应收 实收 / 找零 change 零钱 / 谢谢 thank 欢迎 welcome / 会员 member vip /
\* 积分 point.
nonItemKeywords ==
  { <<"SHOU", "JU">>, <<"FA", "PIAO">>, <<"XIAO", "PIAO">>,
    <<"r", "e", "c", "e", "i", "p", "t">>, <<"GOU", "WU", "QING", "DAN">>,
    <<"DIAN", "MING">>, <<"SHANG", "DIAN">>, <<"CHAO", "SHI1">>,
    <<"BIAN", "LI", "DIAN">>,
    <<"DI", "ZHI">>, <<"DIAN2", "HUA">>, <<"t", "e", "l">>,
    <<"p", "h", "o", "n", "e">>,
    <<"RI", "QI">>, <<"SHI3", "JIAN">>, <<"d", "a", "t", "e">>,
    <<"t", "i", "m", "e">>,
    <<"SHOU", "YIN", "YUAN">>, <<"c", "a", "s", "h", "i", "e", "r">>,
    <<"YING2", "YE", "YUAN">>,
    <<"HE", "JI">>, <<"ZONG", "JI">>, <<"XIAO", "JI">>,
    <<"t", "o", "t", "a", "l">>, <<"s", "u", "b", "t", "o", "t", "a", "l">>,
    <<"YING", "SHOU">>, <<"SHI2", "SHOU">>,
    <<"ZHAO", "LING">>, <<"c", "h", "a", "n", "g", "e">>, <<"LING", "QIAN">>,
    <<"XIE", "XIE">>, <<"t", "h", "a", "n", "k">>, <<"HUAN", "YING3">>,
    <<"w", "e", "l", "c", "o", "m", "e">>,
    <<"HUI2", "YUAN">>, <<"m", "e", "m", "b", "e", "r">>, <<"v", "i", "p">>,
    <<"JI2", "FEN">> , <<"p", "o", "i", "n", "t">> }

IsSeparatorChar(c) == c \in {"-", "=", "*", "_"}

\* isNonItemLine without the patterns of the totals and of the change.
isNonItemLine_NoAggregate(line) ==
  \/ \E kw \in nonItemKeywords \
              { <<"HE", "JI">>, <<"ZONG", "JI">>, <<"XIAO", "JI">>,
                <<"t", "o", "t", "a", "l">>,
                <<"s", "u", "b", "t", "o", "t", "a", "l">>,
                <<"YING", "SHOU">>, <<"SHI2", "SHOU">>,
                <<"ZHAO", "LING">>, <<"c", "h", "a", "n", "g", "e">>,
                <<"LING", "QIAN">> } : MatchesAt(line, 1, kw)
  \/ \A p \in 1..3 : IsSeparatorChar(CharAt(line, p))
  \/ /\ \A p \in {1, 2, 3, 4, 6, 7, 9, 10} : DigitAt(line, p)
     /\ \A p \in {5, 8} : CharAt(line, p) \in {"-", "/"}
  \/ /\ \A p \in {1, 2, 4, 5} : DigitAt(line, p)
     /\ CharAt(line, 3) = ":"

isNonItemLine(line) ==
  \/ \E kw \in nonItemKeywords : MatchesAt(line, 1, kw)
  \* /^[-=*_]{3,}/
  \/ \A p \in 1..3 : IsSeparatorChar(CharAt(line, p))
  \* /^\d{4}[-/]\d{2}[-/]\d{2}/
  \/ /\ \A p \in {1, 2, 3, 4, 6, 7, 9, 10} : DigitAt(line, p)
     /\ \A p \in {5, 8} : CharAt(line, p) \in {"-", "/"}
  \* /^\d{2}:\d{2}/
  \/ /\ \A p \in {1, 2, 4, 5} : DigitAt(line, p)
     /\ CharAt(line, 3) = ":"

\* 小计 合计 总计 找零 收款 应收 实收 优惠 折扣
invalidNames ==
  { <<"XIAO", "JI">>, <<"HE", "JI">>, <<"ZONG", "JI">>, <<"ZHAO", "LING">>,
    <<"SHOU", "KUAN">>, <<"YING", "SHOU">>, <<"SHI2", "SHOU">>,
    <<"YOU", "HUI">>, <<"ZHE", "KOU">> }

Abs(x) == IF x < 0 THEN -x ELSE x
Max(x, y) == IF x >= y THEN x ELSE y

\* isValidItem without the check of the total against unitPrice * quantity.
isValidItem_NoTolerance(name, unitPrice, quantity, totalPrice) ==
  /\ ~(Len(name) < 1 \/ Len(name) > 100)
  /\ ~(unitPrice <= 0 \/ quantity <= 0 \/ totalPrice <= 0)
  /\ ~(unitPrice > 1000000 \/ totalPrice > 10000000)
  /\ ~(\E invalid \in invalidNames : Includes(name, invalid))

\* isValidItem rejecting a difference equal to the tolerance.
isValidItem_StrictTolerance(name, unitPrice, quantity, totalPrice) ==
  /\ ~(Len(name) < 1 \/ Len(name) > 100)
  /\ ~(unitPrice <= 0 \/ quantity <= 0 \/ totalPrice <= 0)
  /\ ~(unitPrice > 1000000 \/ totalPrice > 10000000)
  /\ ~(20 * Abs(totalPrice - unitPrice * quantity)
          >= Max(20, unitPrice * quantity))
  /\ ~(\E invalid \in invalidNames : Includes(name, invalid))

\* isValidItem without the ceilings of the prices.
isValidItemFraction_NoCeiling(name, unitPrice, num, den, totalPrice) ==
  /\ ~(Len(name) < 1 \/ Len(name) > 100)
  /\ ~(unitPrice <= 0 \/ num <= 0 \/ totalPrice <= 0)
  /\ ~(20 * Abs(totalPrice * den - unitPrice * num)
          > Max(20 * den, unitPrice * num))
  /\ ~(\E invalid \in invalidNames : Includes(name, invalid))

\* isValidItem for the quantity num / den, den > 0; the parameter quantity is
\* a number and the code has no test that it is whole.  Prices in
\* hundredths: 10000 is 1000000, 100000 is 10000000, and the tolerance test
\* |total - expected| > max(0.01, expected * 0.05) is taken times twenty,
\* and times den, so that it stays in integers.
isValidItemFraction(name, unitPrice, num, den, totalPrice) ==
  /\ ~(Len(name) < 1 \/ Len(name) > 100)
  /\ ~(unitPrice <= 0 \/ num <= 0 \/ totalPrice <= 0)
  /\ ~(unitPrice > 1000000 \/ totalPrice > 10000000)
  /\ ~(20 * Abs(totalPrice * den - unitPrice * num)
          > Max(20 * den, unitPrice * num))
  /\ ~(\E invalid \in invalidNames : Includes(name, invalid))

\* isValidItem for a whole quantity, as parseInt and the constant 1 give it.
isValidItem(name, unitPrice, quantity, totalPrice) ==
  isValidItemFraction(name, unitPrice, quantity, 1, totalPrice)

\* Any text taken as a product name.
couldBeProductName_AnyText(text) == TRUE

couldBeProductName(text) ==
  /\ \E i \in 1..Len(text) : IsLetterOrHan(text[i])
  /\ Len(text) >= 2 /\ Len(text) <= 50
  /\ ~(Len(text) >= 1 /\ \A i \in 1..Len(text) : IsDigit(text[i]))

(***************************************************************************)
(* extractItemFromLine: the three patterns.  A match is a sequence of      *)
(* length 0 (no match, null) or 1; an index 0 is "no match".               *)
(***************************************************************************)
\* line.replace(/[^一-龥a-zA-Z0-9\s¥.,()（）-]/g, ' ').trim()
IsKeptChar(c) ==
  \/ IsLetterOrHan(c) \/ IsDigit(c) \/ IsSpace(c)
  \/ c \in {"YEN", ".", ",", "(", ")", "FWLPAREN", "FWRPAREN", "-"}

CleanLine(line) ==
  Trim([i \in 1..Len(line) |-> IF IsKeptChar(line[i]) THEN line[i] ELSE " "])

\* s[from..to-1] holds no line terminator: (.+?) can span it.
AllDot(s, from, to) == \A i \in from..(to - 1) : IsDot(s[i])

\* The first match of a pattern (.+?)REST: the least start, and for it the
\* least end of the lazy group, such that REST matches right after the group.
\* ends is the set of indices at which REST matches.
LazyPairs(s, ends) ==
  {pr \in (1..Len(s)) \X ends : pr[1] < pr[2] /\ AllDot(s, pr[1], pr[2])}

LazyFrom(pairs, st) ==
  <<[start |-> st, end |-> Min({pr[2] : pr \in {q \in pairs : q[1] = st}})]>>

LazyOf(pairs) ==
  IF pairs = {} THEN <<>> ELSE LazyFrom(pairs, Min({pr[1] : pr \in pairs}))

LazyGroup(s, ends) == LazyOf(LazyPairs(s, ends))

\* \s+ at index e followed by a digit: the index of the digit.  The run is
\* greedy and a digit cannot start inside it, so it is the longest run.
SpacesThenDigitAt(s, e, w) == IF w > e /\ DigitAt(s, w) THEN w ELSE 0

SpacesThenDigit(s, e) == SpacesThenDigitAt(s, e, SpaceRunEnd(s, e))

\* \s+(\d+(?:\.\d+)?)\s+(\d+)\s+(\d+(?:\.\d+)?) at index e: the indices of
\* the three numbers.  What follows a number cannot start inside it, so each
\* number is the longest one.
UnitPriceIndex(s, e) == SpacesThenDigit(s, e)

QuantityIndex(s, e) ==
  IF UnitPriceIndex(s, e) = 0 THEN 0
  ELSE SpacesThenDigit(s, NumberAt(s, UnitPriceIndex(s, e)).end)

TotalPriceIndex(s, e) ==
  IF QuantityIndex(s, e) = 0 THEN 0
  ELSE SpacesThenDigit(s, DigitRunEnd(s, QuantityIndex(s, e)))

Groups1(s, g) ==
  IF g = <<>> THEN <<>>
  ELSE <<[name |-> Trim(SubSeq(s, g[1].start, g[1].end - 1)),
          unitPrice |-> NumberAt(s, UnitPriceIndex(s, g[1].end)).value,
          quantity |-> ParseInt(s, QuantityIndex(s, g[1].end),
                                DigitRunEnd(s, QuantityIndex(s, g[1].end))),
          totalPrice |-> NumberAt(s, TotalPriceIndex(s, g[1].end)).value]>>

\* cleanLine.match(/(.+?)\s+(\d+(?:\.\d+)?)\s+(\d+)\s+(\d+(?:\.\d+)?)/)
Match1(cleanLine) ==
  Groups1(cleanLine,
          LazyGroup(cleanLine, {e \in 2..Len(cleanLine) :
                                  TotalPriceIndex(cleanLine, e) /= 0}))

AfterYen(s, p) == IF CharAt(s, p) = "YEN" THEN p + 1 ELSE p
AfterColon(s, p) == IF CharAt(s, p) = ":" THEN p + 1 ELSE p

DigitIndex(s, p) == IF DigitAt(s, p) THEN p ELSE 0

\* \s*¥?\s*(\d+(?:\.\d+)?) at index e: the index of the number.
PriceIndex(s, e) ==
  DigitIndex(s, SpaceRunEnd(s, AfterYen(s, SpaceRunEnd(s, e))))

Groups2(s, g) ==
  IF g = <<>> THEN <<>>
  ELSE <<[name |-> Trim(SubSeq(s, g[1].start, g[1].end - 1)),
          price |-> NumberAt(s, PriceIndex(s, g[1].end)).value]>>

\* cleanLine.match(/(.+?)\s*¥?\s*(\d+(?:\.\d+)?)/)
Match2(cleanLine) ==
  Groups2(cleanLine,
          LazyGroup(cleanLine, {e \in 2..Len(cleanLine) :
                                  PriceIndex(cleanLine, e) /= 0}))

\* line.match(/(?:数量|qty|x|×)\s*(\d+)/i): the quantity of the first
\* marker that is followed by digits.
quantityKeywords ==
  { <<"SHU", "LIANG">>, <<"q", "t", "y">>, <<"x">>, <<"TIMES">> }

\* The indices of the digits of a marker that starts at index p.
QuantityAt(s, p) ==
  {d \in {SpaceRunEnd(s, p + Len(kw)) :
            kw \in {k \in quantityKeywords : MatchesAt(s, p, k)}} :
     DigitAt(s, d)}

QuantityFrom(s, d) == <<ParseInt(s, d, DigitRunEnd(s, d))>>

QuantityOf(s, hits) ==
  IF hits = {} THEN <<>> ELSE QuantityFrom(s, Min(QuantityAt(s, Min(hits))))

MatchQuantity(s) == QuantityOf(s, {p \in 1..Len(s) : QuantityAt(s, p) /= {}})

\* line.match(/¥?(\d+(?:\.\d+)?)/): the first number of the line.
FirstNumber(s, ds) == IF ds = {} THEN <<>> ELSE <<NumberAt(s, Min(ds)).value>>

MatchPrice(s) == FirstNumber(s, {p \in 1..Len(s) : IsDigit(s[p])})

Item(name, unitPrice, quantity, totalPrice) ==
  [name |-> name, unitPrice |-> unitPrice, quantity |-> quantity,
   totalPrice |-> totalPrice]

\* if (this.isValidItem(...)) return {...}
Validated(name, unitPrice, quantity, totalPrice) ==
  IF isValidItem(name, unitPrice, quantity, totalPrice)
  THEN <<Item(name, unitPrice, quantity, totalPrice)>>
  ELSE <<>>

\* 模式1: 商品名 单价 数量 总价
Candidate1(m) ==
  IF m = <<>> THEN <<>>
  ELSE Validated(m[1].name, m[1].unitPrice, m[1].quantity, m[1].totalPrice)

Pattern1(cleanLine) == Candidate1(Match1(cleanLine))

\* 模式2: 商品名 价格, the quantity from the previous or the next line
PrevLine(allLines, currentIndex) ==
  IF currentIndex > 1 THEN Trim(allLines[currentIndex - 1]) ELSE <<>>

NextLine(allLines, currentIndex) ==
  IF currentIndex + 1 <= Len(allLines)
  THEN Trim(allLines[currentIndex + 1]) ELSE <<>>

\* Only the marker of the previous line looked at.
Quantity_PrevOnly(prevQty, nextQty) ==
  IF prevQty /= <<>> THEN prevQty[1] ELSE 1

\* The marker of the next line preferred to that of the previous one.
Quantity_NextFirst(prevQty, nextQty) ==
  IF nextQty /= <<>> THEN nextQty[1]
  ELSE IF prevQty /= <<>> THEN prevQty[1] ELSE 1

Quantity(prevQty, nextQty) ==
  IF prevQty /= <<>> THEN prevQty[1]
  ELSE IF nextQty /= <<>> THEN nextQty[1] ELSE 1

Candidate2(m, quantity) ==
  IF m = <<>> THEN <<>>
  ELSE Validated(m[1].name, m[1].price, quantity, m[1].price * quantity)

Pattern2(cleanLine, allLines, currentIndex) ==
  Candidate2(Match2(cleanLine),
             Quantity(MatchQuantity(PrevLine(allLines, currentIndex)),
                      MatchQuantity(NextLine(allLines, currentIndex))))

\* 模式3: the name on this line, the price on the next one
Candidate3(cleanLine, priceMatch) ==
  IF priceMatch /= <<>> /\ couldBeProductName(cleanLine)
  THEN Validated(cleanLine, priceMatch[1], 1, priceMatch[1])
  ELSE <<>>

\* Pattern 3 not reading a price from a line isNonItemLine skips.
Pattern3_SkipNoise(cleanLine, allLines, currentIndex) ==
  IF currentIndex + 1 <= Len(allLines)
     /\ ~isNonItemLine(Trim(allLines[currentIndex + 1]))
  THEN Candidate3(cleanLine, MatchPrice(Trim(allLines[currentIndex + 1])))
  ELSE <<>>

Pattern3(cleanLine, allLines, currentIndex) ==
  IF currentIndex + 1 <= Len(allLines)
  THEN Candidate3(cleanLine, MatchPrice(Trim(allLines[currentIndex + 1])))
  ELSE <<>>

\* Pattern 2 tried before pattern 1.
FirstItem_Pattern2First(p1, p2, p3) ==
  IF p2 /= <<>> THEN p2 ELSE IF p1 /= <<>> THEN p1 ELSE p3

\* The first pattern that returns an item.
FirstItem(p1, p2, p3) ==
  IF p1 /= <<>> THEN p1 ELSE IF p2 /= <<>> THEN p2 ELSE p3

ExtractFromClean(cleanLine, allLines, currentIndex) ==
  FirstItem(Pattern1(cleanLine),
            Pattern2(cleanLine, allLines, currentIndex),
            Pattern3(cleanLine, allLines, currentIndex))

\* allLines and currentIndex count from 1.
extractItemFromLine(line, allLines, currentIndex) ==
  ExtractFromClean(CleanLine(line), allLines, currentIndex)

(***************************************************************************)
(* parseReceiptText and extractTotalAmount.                                *)
(***************************************************************************)
\* The loop of parseReceiptText without the skip of the non-item lines.
ParseLine_NoSkip(line, lines, i) == extractItemFromLine(line, lines, i)

\* One turn of the loop of parseReceiptText, line being lines[i].trim().
ParseLine(line, lines, i) ==
  IF isNonItemLine(line) THEN <<>> ELSE extractItemFromLine(line, lines, i)

\* The loop of parseReceiptText putting each new item in front (unshift).
RECURSIVE ParseLines_Reversed(_, _)
ParseLines_Reversed(lines, i) ==
  IF i > Len(lines) THEN <<>>
  ELSE ParseLines_Reversed(lines, i + 1) \o ParseLine(Trim(lines[i]), lines, i)

\* The item of line i took its quantity or its price from line i + 1.
UsesNextLine(lines, i) ==
  /\ ParseLine(Trim(lines[i]), lines, i) /= <<>>
  /\ Pattern1(CleanLine(Trim(lines[i]))) = <<>>
  /\ \/ Pattern2(CleanLine(Trim(lines[i])), lines, i) = <<>>
     \/ /\ MatchQuantity(PrevLine(lines, i)) = <<>>
        /\ MatchQuantity(NextLine(lines, i)) /= <<>>

\* The loop of parseReceiptText stepping over a line the line before it
\* has used.
RECURSIVE ParseLines_Consume(_, _)
ParseLines_Consume(lines, i) ==
  IF i > Len(lines) THEN <<>>
  ELSE ParseLine(Trim(lines[i]), lines, i)
       \o ParseLines_Consume(lines,
                             IF UsesNextLine(lines, i) THEN i + 2 ELSE i + 1)

RECURSIVE ParseLines(_, _)
ParseLines(lines, i) ==
  IF i > Len(lines) THEN <<>>
  ELSE ParseLine(Trim(lines[i]), lines, i) \o ParseLines(lines, i + 1)

parseReceiptText(text) == ParseLines(NonBlank(Split(text)), 1)

\* The keywords of the three total patterns: 合计 总计 total 应收 实收,
\* 合计 总计 total (after the amount), 总额 金额.
totalKeywords1 ==
  { <<"HE", "JI">>, <<"ZONG", "JI">>, <<"t", "o", "t", "a", "l">>,
    <<"YING", "SHOU">>, <<"SHI2", "SHOU">> }
totalKeywords2 ==
  { <<"HE", "JI">>, <<"ZONG", "JI">>, <<"t", "o", "t", "a", "l">> }
totalKeywords3 == { <<"ZONG", "E2">>, <<"JIN", "E2">> }

\* \s*:?\s*¥? at index q: the index after it.
AmountIndex(s, q) == AfterYen(s, SpaceRunEnd(s, AfterColon(s, SpaceRunEnd(s, q))))

\* KEYWORD\s*:?\s*¥?(\d+(?:\.\d+)?) at index p: the indices of the number.
LabelThenAmountAt(s, p, keywords) ==
  {d \in {AmountIndex(s, p + Len(kw)) :
            kw \in {k \in keywords : MatchesAt(s, p, k)}} :
     DigitAt(s, d)}

FirstLabelled(s, keywords, hits) ==
  IF hits = {} THEN <<>>
  ELSE <<NumberAt(s, Min(LabelThenAmountAt(s, Min(hits), keywords))).value>>

\* line.match(/(?:KEYWORDS)\s*:?\s*¥?(\d+(?:\.\d+)?)/i)
MatchLabelThenAmount(s, keywords) ==
  FirstLabelled(s, keywords,
                {p \in 1..Len(s) : LabelThenAmountAt(s, p, keywords) /= {}})

FirstAmountThenLabel(s, hits) ==
  IF hits = {} THEN <<>> ELSE <<NumberAt(s, Min(hits) + 1).value>>

\* line.match(/¥(\d+(?:\.\d+)?)\s*(?:合计|总计|total)/i)
MatchAmountThenLabel(s) ==
  FirstAmountThenLabel(s,
    {p \in 1..Len(s) :
       /\ s[p] = "YEN"
       /\ DigitAt(s, p + 1)
       /\ \E kw \in totalKeywords2 :
            MatchesAt(s, SpaceRunEnd(s, NumberAt(s, p + 1).end), kw)})

\* amount > 0 && amount < 100000
Admissible(amount) == amount > 0 /\ amount < 10000000

\* The loop over totalPatterns for one line: the amount returned from it,
\* if any.
FirstAdmissible(m1, m2, m3) ==
  IF m1 /= <<>> /\ Admissible(m1[1]) THEN m1
  ELSE IF m2 /= <<>> /\ Admissible(m2[1]) THEN m2
  ELSE IF m3 /= <<>> /\ Admissible(m3[1]) THEN m3
  ELSE <<>>

LineTotal(line) ==
  FirstAdmissible(MatchLabelThenAmount(line, totalKeywords1),
                  MatchAmountThenLabel(line),
                  MatchLabelThenAmount(line, totalKeywords3))

\* A reduce that stops after the first item.
SumTotalPrice_First(items) ==
  IF items = <<>> THEN 0 ELSE Head(items).totalPrice

\* items.reduce((sum, item) => sum + item.totalPrice, 0)
RECURSIVE SumTotalPrice(_)
SumTotalPrice(items) ==
  IF items = <<>> THEN 0
  ELSE Head(items).totalPrice + SumTotalPrice(Tail(items))

RECURSIVE ScanTotal(_, _, _)
ScanTotal(lines, i, items) ==
  IF i > Len(lines) THEN SumTotalPrice(items)
  ELSE IF LineTotal(lines[i]) /= <<>> THEN LineTotal(lines[i])[1]
       ELSE ScanTotal(lines, i + 1, items)

\* The scan of the lines that isNonItemLine does not flag.
RECURSIVE NonNoise(_)
NonNoise(ls) ==
  IF ls = <<>> THEN <<>>
  ELSE IF isNonItemLine(Trim(Head(ls))) THEN NonNoise(Tail(ls))
       ELSE <<Head(ls)>> \o NonNoise(Tail(ls))

extractTotalAmount_SkipNoise(text, items) ==
  ScanTotal(NonNoise(Split(text)), 1, items)

\* The sum of the items, when there are any, before the declared total.
extractTotalAmount_PreferSum(text, items) ==
  IF items /= <<>> THEN SumTotalPrice(items)
  ELSE ScanTotal(Split(text), 1, items)

extractTotalAmount(text, items) == ScanTotal(Split(text), 1, items)

(***************************************************************************)
(* Transcripts.                                                            *)
(***************************************************************************)
\* 苹果 5.00 2 10.00
LineApple == <<"PING", "GUO", " ", "5", ".", "0", "0", " ", "2", " ",
               "1", "0", ".", "0", "0">>
\* 可乐 ¥3.5
LineCola == <<"KE", "LE", " ", "YEN", "3", ".", "5">>
\* 数量 x2
LineQty == <<"SHU", "LIANG", " ", "x", "2">>
\* 面包 ¥8.0
LineBread == <<"MIAN", "BAO", " ", "YEN", "8", ".", "0">>
\* 总计 ¥15.0
LineZongji == <<"ZONG", "JI", " ", "YEN", "1", "5", ".", "0">>
\* 合计: ¥25.50
LineHeji == <<"HE", "JI", ":", " ", "YEN", "2", "5", ".", "5", "0">>
\* 合计 100000
LineHejiBig == <<"HE", "JI", " ", "1", "0", "0", "0", "0", "0">>
\* 合计: 0
LineHejiZero == <<"HE", "JI", ":", " ", "0">>
\* 牛奶
LineMilk == <<"NIU", "NAI">>
\* ¥12.00
LinePrice == <<"YEN", "1", "2", ".", "0", "0">>
\* 商品A 0 1 0
LineZero == <<"SHANG", "PIN", "A", " ", "0", " ", "1", " ", "0">>
\* 商品B -5 2 -10
LineNeg == <<"SHANG", "PIN", "B", " ", "-", "5", " ", "2", " ", "-", "1", "0">>
\* 商品C 10 2 20
LineGoodC == <<"SHANG", "PIN", "C", " ", "1", "0", " ", "2", " ", "2", "0">>
\* 苹果 10 2 21.5
LineOver == <<"PING", "GUO", " ", "1", "0", " ", "2", " ", "2", "1", ".", "5">>
\* 牛奶 5 1 5
LineFive == <<"NIU", "NAI", " ", "5", " ", "1", " ", "5">>
\* 谢谢惠顾
LineThanks == <<"XIE", "XIE", "HUI", "GU">>
\* 金额 30
LineAmount == <<"JIN", "E2", " ", "3", "0">>
\* a blank line
LineBlank == <<" ", " ">>

LinePool ==
  { LineApple, LineCola, LineQty, LineBread, LineZongji, LineHeji,
    LineHejiBig, LineHejiZero, LineMilk, LinePrice, LineZero, LineNeg, LineGoodC,
    LineOver, LineFive, LineThanks, LineAmount, LineBlank }

\* The lines joined by newlines.
RECURSIVE Join(_)
Join(ls) ==
  IF ls = <<>> THEN <<>>
  ELSE IF Len(ls) = 1 THEN ls[1]
  ELSE ls[1] \o <<"\n">> \o Join(Tail(ls))

Indent(line) == <<" ", " ">> \o line

\* The transcripts of src/backend/tests/ocrService.test.ts, each with its
\* leading newline, its indentation and its last, blank line.
RECURSIVE IndentAll(_)
IndentAll(ls) ==
  IF ls = <<>> THEN <<>> ELSE <<Indent(Head(ls))>> \o IndentAll(Tail(ls))

TestText(ls) == <<"\n">> \o Join(IndentAll(ls)) \o <<"\n", " ">>

\* 便利店收据 / 可乐 ¥3.5 / 数量 x2 / 面包 ¥8.0 / 总计 ¥15.0
TextFormats ==
  TestText(<< <<"BIAN", "LI", "DIAN", "SHOU", "JU">>,
              LineCola, LineQty, LineBread, LineZongji >>)

\* 商品A 0 1 0 / 商品B -5 2 -10 / 商品C 10 2 20
TextValidate == TestText(<< LineZero, LineNeg, LineGoodC >>)

\* 商品1 10.00 / 商品2 15.50 / 合计: ¥25.50
TextTotal ==
  TestText(<< <<"SHANG", "PIN", "1", " ", "1", "0", ".", "0", "0">>,
              <<"SHANG", "PIN", "2", " ", "1", "5", ".", "5", "0">>,
              LineHeji >>)

\* 商品C 10 2 20 / 苹果 5.00 2 10.00 / 合计: ¥25.50
TextPrecedence == Join(<< LineGoodC, LineApple, LineHeji >>)

\* 苹果 5.00 2 10.00 / 可乐 ¥3.5 / 牛奶 / ¥12.00
TextMixed == Join(<< LineApple, LineCola, LineMilk, LinePrice >>)

\* 合计: 0 / 合计 100000 / 总计 ¥15.0 / 合计: ¥25.50
TextScan == Join(<< LineHejiZero, LineHejiBig, LineZongji, LineHeji >>)

\* 超市购物小票 / 商品名称    单价   数量   总价 / 苹果       5.00    2    10.00 /
\* 香蕉       3.50    3    10.50 / 牛奶      12.00    1    12.00 /
\* 合计                   32.50
LineTitle == <<"CHAO", "SHI1", "GOU", "WU", "XIAO", "PIAO">>
LineColumns ==
  <<"SHANG", "PIN", "MING", "CHENG", " ", " ", " ", " ", "DAN", "JIA",
    " ", " ", " ", "SHU", "LIANG", " ", " ", " ", "ZONG", "JIA">>
LineAppleRow ==
  <<"PING", "GUO", " ", " ", " ", "5", ".", "0", "0", " ", " ", " ", "2",
    " ", " ", " ", "1", "0", ".", "0", "0">>
LineBananaRow ==
  <<"XIANG", "JIAO", " ", " ", " ", "3", ".", "5", "0", " ", " ", " ", "3",
    " ", " ", " ", "1", "0", ".", "5", "0">>
LineMilkRow ==
  <<"NIU", "NAI", " ", " ", " ", "1", "2", ".", "0", "0", " ", " ", " ", "1",
    " ", " ", " ", "1", "2", ".", "0", "0">>
LineHejiRow == <<"HE", "JI", " ", " ", " ", " ", "3", "2", ".", "5", "0">>
TextTabular ==
  TestText(<< LineTitle, LineColumns, LineAppleRow, LineBananaRow,
              LineMilkRow, LineHejiRow >>)

\* 收据标题 / 店铺地址：某某路123号 / 电话：123-456-7890 /
\* 苹果 5.00 2 10.00 / 谢谢惠顾
LineReceiptTitle == <<"SHOU", "JU", "BIAO", "TI">>
LineAddress ==
  <<"DIAN", "PU", "DI", "ZHI", "FWCOLON", "MOU", "MOU", "LU",
    "1", "2", "3", "HAO">>
LinePhone ==
  <<"DIAN2", "HUA", "FWCOLON", "1", "2", "3", "-", "4", "5", "6", "-",
    "7", "8", "9", "0">>
TextFilter ==
  TestText(<< LineReceiptTitle, LineAddress, LinePhone, LineApple,
              LineThanks >>)

\* 苹果 5.00 2 10.00 / 合计 32.50 / Total 32.50 / 找零 3.00 / change 2
LineTotalEn == <<"T", "o", "t", "a", "l", " ", "3", "2", ".", "5", "0">>
LineZhaoling == <<"ZHAO", "LING", " ", "3", ".", "0", "0">>
LineChange == <<"c", "h", "a", "n", "g", "e", " ", "2">>
TextAggregate ==
  Join(<< LineApple, <<"HE", "JI", " ", "3", "2", ".", "5", "0">>,
          LineTotalEn, LineZhaoling, LineChange >>)

\* Grand total 25.00
LineGrandTotal ==
  <<"G", "r", "a", "n", "d", " ", "t", "o", "t", "a", "l", " ",
    "2", "5", ".", "0", "0">>

\* 苹果 10 2 21.5 / 牛奶
TextFallThrough == Join(<< LineOver, LineMilk >>)

\* 数量 x2 / 可乐 ¥3.5 / Qty 3: a marker on both sides of the second line.
TextBothMarkers ==
  Join(<< LineQty, LineCola, <<"Q", "t", "y", " ", "3">> >>)

\* Cola500ml 3.50
LineCola500 ==
  <<"C", "o", "l", "a", "5", "0", "0", "m", "l", " ", "3", ".", "5", "0">>

\* 牛 / ¥12.00: a name of one character above a price.
TextShortName == Join(<< <<"NIU">>, LinePrice >>)

\* 苹果 10000 10 100000 / 苹果 10000 10 100000.01 / 苹果 10000.01 1 10000.01:
\* a row at both ceilings of isValidItem, one above the ceiling of the
\* total, one above that of the unit price.
TextCeilings ==
  Join(<< <<"PING", "GUO", " ", "1", "0", "0", "0", "0", " ", "1", "0", " ",
            "1", "0", "0", "0", "0", "0">>,
          <<"PING", "GUO", " ", "1", "0", "0", "0", "0", " ", "1", "0", " ",
            "1", "0", "0", "0", "0", "0", ".", "0", "1">>,
          <<"PING", "GUO", " ", "1", "0", "0", "0", "0", ".", "0", "1", " ",
            "1", " ", "1", "0", "0", "0", "0", ".", "0", "1">> >>)

\* 可乐 ¥9000 / 数量 x12: 9000 x 12 is above the ceiling of the total.
TextProductOver ==
  Join(<< <<"KE", "LE", " ", "YEN", "9", "0", "0", "0">>,
          <<"SHU", "LIANG", " ", "x", "1", "2">> >>)

\* 可乐 ¥3.5 / 小计 x2 / 牛奶 / a blank line / 合计: ¥25.50: two lines that
\* isNonItemLine skips, one with a quantity marker, one with an amount.
TextNoiseNeighbours ==
  Join(<< LineCola, <<"XIAO", "JI", " ", "x", "2">>, LineMilk, LineBlank,
          LineHeji >>)

MaxLines == 2

\* Every transcript of at most MaxLines lines of the pool (the empty
\* transcript included), and the transcripts of the tests.
Transcripts ==
  {Join(ls) : ls \in UNION {[1..n -> LinePool] : n \in 0..MaxLines}}
  \cup {TextFormats, TextValidate, TextTotal, TextPrecedence, TextMixed,
        TextScan, TextTabular, TextFilter, TextAggregate, LineGrandTotal,
        TextFallThrough, TextBothMarkers, LineCola500,
        TextShortName, TextCeilings, TextProductOver,
        TextNoiseNeighbours}

(***************************************************************************)
(* recognizeReceipt: one process per request on the shared OCRService.     *)
(* The engine (Tesseract.recognize) is external: each call either resolves *)
(* with some {text, confidence} or rejects with some error.                *)
(***************************************************************************)
Requests == {"r1", "r2"}

\* The last text has no item: 谢谢惠顾 is noise and 牛奶 fails every pattern.
EngineTexts ==
  {TextFormats, Join(<<LineApple, LineHeji>>), Join(<<LineThanks, LineMilk>>)}
Confidences == {40, 50, 60, 70}
EngineData == [text : EngineTexts, confidence : Confidences]

\* An error object: who created it and its message.  The message of the
\* error recognizeReceipt creates is 'OCR识别失败'.
WrappedMessage == "OCR shibie shibai"
EngineErrors ==
  { [origin |-> "engine", message |-> "OCR failed"],
    [origin |-> "engine", message |-> WrappedMessage] }

None == [none |-> TRUE]

VARIABLES
  pc,          \* request -> "idle", "first", "retry", "done" or "failed"
  text,        \* request -> the local text of recognizeReceipt
  confidence,  \* request -> the local confidence
  result,      \* request -> the OCRResult the promise resolved with, or None
  error,       \* request -> the error the promise rejected with, or None
  calls,       \* request -> the engine's replies and failures, in call order
  inFlight,    \* request -> the number of engine calls not yet settled
  transcript,  \* the argument of the parsing functions
  phase,       \* "input", "parsed" or "totalled"
  items,       \* the result of parseReceiptText(transcript)
  totalAmount, \* the result of extractTotalAmount(transcript, items)
  candidate,   \* the arguments of isValidItem, or None
  accepted     \* "pending", or "accepted" / "rejected" as isValidItem returns

orchVars == <<pc, text, confidence, result, error, calls, inFlight>>
parseVars == <<transcript, phase, items, totalAmount>>
validVars == <<candidate, accepted>>
vars == <<pc, text, confidence, result, error, calls, inFlight,
          transcript, phase, items, totalAmount, candidate, accepted>>

OrchInit ==
  /\ pc = [r \in Requests |-> "idle"]
  /\ text = [r \in Requests |-> None]
  /\ confidence = [r \in Requests |-> None]
  /\ result = [r \in Requests |-> None]
  /\ error = [r \in Requests |-> None]
  /\ calls = [r \in Requests |-> <<>>]
  /\ inFlight = [r \in Requests |-> 0]

Init ==
  /\ OrchInit
  /\ transcript = <<>>
  /\ phase = "input"
  /\ items = <<>>
  /\ totalAmount = 0
  /\ candidate = None
  /\ accepted = "pending"

\* lines 67-76: parse the text and assemble the result.
OCRResult(t, its, c) ==
  [text |-> t, items |-> its, confidence |-> c,
   totalAmount |-> extractTotalAmount(t, its)]

\* The text kept in a field of the shared instance: a request parses the
\* text another request left there while waiting for its retry.
Assemble_SharedText(t, c) ==
  IF \E r \in Requests : pc[r] = "retry" /\ text[r] /= t
  THEN OCRResult(t, parseReceiptText(
                      text[CHOOSE r \in Requests :
                             pc[r] = "retry" /\ text[r] /= t]), c)
  ELSE OCRResult(t, parseReceiptText(t), c)

Assemble(t, c) == OCRResult(t, parseReceiptText(t), c)

\* A catch block that throws the error it caught.
Caught_Rethrow(e) == e

\* lines 77-80: the catch block logs the error and throws a new one.
Caught(e) == [origin |-> "recognizeReceipt", message |-> WrappedMessage]

\* confidence <= 60
NeedsRetry_Inclusive(c) == c <= 60

\* confidence < 60
NeedsRetry(c) == c < 60

\* The retry's confidence taken whatever it is.
Adopted_Always(c, c2) == c2

\* data2.confidence > confidence
Adopted(c, c2) == IF c2 > c THEN c2 ELSE c

\* recognizeReceipt is called: it runs up to its first await.
Recognize(r) ==
  /\ pc[r] = "idle"
  /\ pc' = [pc EXCEPT ![r] = "first"]
  /\ inFlight' = [inFlight EXCEPT ![r] = @ + 1]
  /\ UNCHANGED <<text, confidence, result, error, calls, parseVars, validVars>>

\* A first pass that throws when the text has no item.
FirstResolves_ThrowOnEmpty(r) ==
  /\ pc[r] = "first"
  /\ \E data \in EngineData :
       /\ calls' = [calls EXCEPT ![r] = Append(@, data)]
       /\ text' = [text EXCEPT ![r] = data.text]
       /\ confidence' = [confidence EXCEPT ![r] = data.confidence]
       /\ IF NeedsRetry(data.confidence)
          THEN /\ pc' = [pc EXCEPT ![r] = "retry"]
               /\ inFlight' = inFlight
               /\ result' = result
               /\ error' = error
          ELSE /\ inFlight' = [inFlight EXCEPT ![r] = @ - 1]
               /\ IF parseReceiptText(data.text) = <<>>
                  THEN /\ pc' = [pc EXCEPT ![r] = "failed"]
                       /\ error' = [error EXCEPT ![r] = Caught(data)]
                       /\ result' = result
                  ELSE /\ pc' = [pc EXCEPT ![r] = "done"]
                       /\ error' = error
                       /\ result' = [result EXCEPT
                                       ![r] = Assemble(data.text,
                                                       data.confidence)]
  /\ UNCHANGED <<parseVars, validVars>>

\* A first pass that starts the retry without awaiting it.
FirstResolves_NoAwait(r) ==
  /\ pc[r] = "first"
  /\ \E data \in EngineData :
       /\ calls' = [calls EXCEPT ![r] = Append(@, data)]
       /\ text' = [text EXCEPT ![r] = data.text]
       /\ confidence' = [confidence EXCEPT ![r] = data.confidence]
       /\ inFlight' = IF NeedsRetry(data.confidence)
                      THEN inFlight
                      ELSE [inFlight EXCEPT ![r] = @ - 1]
       /\ result' = [result EXCEPT
                       ![r] = Assemble(data.text, data.confidence)]
  /\ pc' = [pc EXCEPT ![r] = "done"]
  /\ UNCHANGED <<error, parseVars, validVars>>

\* The first call resolves: lines 52-65 up to the second await, or, with no
\* retry, lines 52-76.
FirstResolves(r) ==
  /\ pc[r] = "first"
  /\ \E data \in EngineData :
       /\ calls' = [calls EXCEPT ![r] = Append(@, data)]
       /\ text' = [text EXCEPT ![r] = data.text]
       /\ confidence' = [confidence EXCEPT ![r] = data.confidence]
       /\ IF NeedsRetry(data.confidence)
          THEN /\ pc' = [pc EXCEPT ![r] = "retry"]
               /\ inFlight' = inFlight
               /\ result' = result
          ELSE /\ pc' = [pc EXCEPT ![r] = "done"]
               /\ inFlight' = [inFlight EXCEPT ![r] = @ - 1]
               /\ result' = [result EXCEPT
                               ![r] = Assemble(data.text, data.confidence)]
  /\ UNCHANGED <<error, parseVars, validVars>>

\* A retry whose text replaces the first pass's when its confidence is higher.
RetryResolves_RetryText(r) ==
  /\ pc[r] = "retry"
  /\ \E data2 \in EngineData :
       /\ calls' = [calls EXCEPT ![r] = Append(@, data2)]
       /\ confidence' = [confidence EXCEPT
                           ![r] = Adopted(@, data2.confidence)]
       /\ result' = [result EXCEPT
                       ![r] = Assemble(IF data2.confidence > confidence[r]
                                       THEN data2.text ELSE text[r],
                                       Adopted(confidence[r], data2.confidence))]
  /\ pc' = [pc EXCEPT ![r] = "done"]
  /\ inFlight' = [inFlight EXCEPT ![r] = @ - 1]
  /\ UNCHANGED <<text, error, parseVars, validVars>>

\* The retry resolves: lines 62-76.
RetryResolves(r) ==
  /\ pc[r] = "retry"
  /\ \E data2 \in EngineData :
       /\ calls' = [calls EXCEPT ![r] = Append(@, data2)]
       /\ confidence' = [confidence EXCEPT
                           ![r] = Adopted(@, data2.confidence)]
       /\ result' = [result EXCEPT
                       ![r] = Assemble(text[r],
                                       Adopted(confidence[r], data2.confidence))]
  /\ pc' = [pc EXCEPT ![r] = "done"]
  /\ inFlight' = [inFlight EXCEPT ![r] = @ - 1]
  /\ UNCHANGED <<text, error, parseVars, validVars>>

\* A failed retry answered with the result of the first pass.
EngineRejects_Partial(r) ==
  /\ pc[r] \in {"first", "retry"}
  /\ \E e \in EngineErrors :
       /\ calls' = [calls EXCEPT ![r] = Append(@, e)]
       /\ IF pc[r] = "retry"
          THEN /\ result' = [result EXCEPT
                               ![r] = Assemble(text[r], confidence[r])]
               /\ error' = error
               /\ pc' = [pc EXCEPT ![r] = "done"]
          ELSE /\ result' = result
               /\ error' = [error EXCEPT ![r] = Caught(e)]
               /\ pc' = [pc EXCEPT ![r] = "failed"]
  /\ inFlight' = [inFlight EXCEPT ![r] = @ - 1]
  /\ UNCHANGED <<text, confidence>>
  /\ UNCHANGED <<parseVars, validVars>>

\* A failed retry ignored when the first pass had a text with items.
EngineRejects_KeepFirst(r) ==
  /\ pc[r] \in {"first", "retry"}
  /\ \E e \in EngineErrors :
       /\ calls' = [calls EXCEPT ![r] = Append(@, e)]
       /\ IF pc[r] = "retry" /\ parseReceiptText(text[r]) /= <<>>
          THEN /\ result' = [result EXCEPT
                               ![r] = Assemble(text[r], confidence[r])]
               /\ error' = error
               /\ pc' = [pc EXCEPT ![r] = "done"]
          ELSE /\ result' = result
               /\ error' = [error EXCEPT ![r] = Caught(e)]
               /\ pc' = [pc EXCEPT ![r] = "failed"]
  /\ inFlight' = [inFlight EXCEPT ![r] = @ - 1]
  /\ UNCHANGED <<text, confidence>>
  /\ UNCHANGED <<parseVars, validVars>>

\* A call of the engine rejects, the first one or the retry: lines 77-80.
EngineRejects(r) ==
  /\ pc[r] \in {"first", "retry"}
  /\ \E e \in EngineErrors :
       /\ calls' = [calls EXCEPT ![r] = Append(@, e)]
       /\ error' = [error EXCEPT ![r] = Caught(e)]
  /\ pc' = [pc EXCEPT ![r] = "failed"]
  /\ inFlight' = [inFlight EXCEPT ![r] = @ - 1]
  /\ result' = result
  /\ UNCHANGED <<text, confidence>>
  /\ UNCHANGED <<parseVars, validVars>>

Next ==
  \E r \in Requests :
    \/ Recognize(r)
    \/ FirstResolves(r)
    \/ RetryResolves(r)
    \/ EngineRejects(r)

Spec == Init /\ [][Next]_vars

(***************************************************************************)
(* The parsing functions on their own, for every transcript.               *)
(***************************************************************************)
ParseInit ==
  /\ OrchInit
  /\ transcript \in Transcripts
  /\ phase = "input"
  /\ items = <<>>
  /\ totalAmount = 0
  /\ candidate = None
  /\ accepted = "pending"

ParseReceiptText ==
  /\ phase = "input"
  /\ items' = parseReceiptText(transcript)
  /\ phase' = "parsed"
  /\ UNCHANGED <<transcript, totalAmount, orchVars, validVars>>

ExtractTotalAmount ==
  /\ phase = "parsed"
  /\ totalAmount' = extractTotalAmount(transcript, items)
  /\ phase' = "totalled"
  /\ UNCHANGED <<transcript, items, orchVars, validVars>>

ParseNext == ParseReceiptText \/ ExtractTotalAmount

ParseSpec == ParseInit /\ [][ParseNext]_vars

(***************************************************************************)
(* isValidItem on its own, for candidates on both sides of each rule.      *)
(***************************************************************************)
\* 苹果, the empty name, 合计, 优惠苹果, Grand total, and names of 100 and of
\* 101 characters.
CandidateNames ==
  { <<"PING", "GUO">>, <<>>, <<"HE", "JI">>,
    <<"YOU", "HUI", "PING", "GUO">>, SubSeq(LineGrandTotal, 1, 11),
    [i \in 1..100 |-> "a"], [i \in 1..101 |-> "a"] }

\* In hundredths: -5, 0, 0.10, 10, 10000, 10000.01.
CandidateUnitPrices == {-500, 0, 10, 1000, 1000000, 1000001}
CandidateQuantities == {0, 1, 2}
\* In hundredths, around 0.10 and around 20 = 10 * 2.
CandidateTotalPrices ==
  {-1000, 0, 9, 10, 11, 12, 1899, 1900, 2000, 2049, 2100, 2101, 2150,
   1000000, 1000001}

Candidates ==
  { Item(n, u, q, t) : n \in CandidateNames, u \in CandidateUnitPrices,
                       q \in CandidateQuantities, t \in CandidateTotalPrices }

\* Candidates with the quantity num / 2: -0.5, 0.5, 1, 1.5 and 2 of 苹果 at
\* 10, for the totals 5, 10, 15 and 20.
FractionalCandidates ==
  { [name |-> <<"PING", "GUO">>, unitPrice |-> 1000, num |-> n, den |-> 2,
     totalPrice |-> t] : n \in {-1, 1, 2, 3, 4},
                         t \in {500, 1000, 1500, 2000} }

IsFraction(c) == "den" \in DOMAIN c

ValidateInit ==
  /\ OrchInit
  /\ transcript = <<>>
  /\ phase = "input"
  /\ items = <<>>
  /\ totalAmount = 0
  /\ candidate \in Candidates \cup FractionalCandidates
  /\ accepted = "pending"

\* The call of isValidItem on the candidate.
IsValid(c) ==
  IF IsFraction(c)
  THEN isValidItemFraction(c.name, c.unitPrice, c.num, c.den, c.totalPrice)
  ELSE isValidItem(c.name, c.unitPrice, c.quantity, c.totalPrice)

IsValidItem ==
  /\ accepted = "pending"
  /\ candidate /= None
  /\ accepted' = IF IsValid(candidate) THEN "accepted" ELSE "rejected"
  /\ UNCHANGED <<candidate, parseVars, orchVars>>

ValidateNext == IsValidItem

ValidateSpec == ValidateInit /\ [][ValidateNext]_vars

(***************************************************************************)
(* Properties of the parsing functions (ParseSpec).                        *)
(***************************************************************************)
\* The invariants of a LineItem: 1 <= len(trim(name)) <= 100, unitPrice > 0,
\* quantity an integer >= 1, totalPrice > 0 and
\* |totalPrice - unitPrice * quantity| <= max(0.01, 0.05 * unitPrice * quantity).
LineItemInvariant(it) ==
  /\ Len(Trim(it.name)) >= 1 /\ Len(Trim(it.name)) <= 100
  /\ it.unitPrice > 0
  /\ it.quantity \in Nat /\ it.quantity >= 1
  /\ it.totalPrice > 0
  /\ 20 * Abs(it.totalPrice - it.unitPrice * it.quantity)
       <= Max(20, it.unitPrice * it.quantity)

\* C1: every item parseReceiptText returns satisfies the LineItem invariants,
\* whichever of the three patterns produced it.
C1_ItemInvariants == \A i \in 1..Len(items) : LineItemInvariant(items[i])

\* A transcript whose items come from pattern 1 (苹果), pattern 2 (可乐 and
\* the price line itself) and pattern 3 (牛奶).
C1_Witness ==
  /\ phase = "parsed"
  /\ transcript = TextMixed
  /\ items = << Item(<<"PING", "GUO">>, 500, 2, 1000),
                Item(<<"KE", "LE">>, 350, 1, 350),
                Item(<<"NIU", "NAI">>, 1200, 1, 1200),
                Item(<<"YEN">>, 1200, 1, 1200) >>

\* The amounts the three labelled-amount patterns find on a line, and those
\* of them strictly between 0 and 100000.
LabelledAmounts(line) ==
  {m[1] : m \in {x \in {MatchLabelThenAmount(line, totalKeywords1),
                        MatchAmountThenLabel(line),
                        MatchLabelThenAmount(line, totalKeywords3)} :
                   x /= <<>>}}

DeclaredTotals(line) ==
  {a \in LabelledAmounts(line) : a > 0 /\ a < 10000000}

AllDeclaredTotals(t) ==
  UNION {DeclaredTotals(Split(t)[i]) : i \in 1..Len(Split(t))}

\* The sum of totalPrice over the items.
RECURSIVE SumOfFirst(_, _)
SumOfFirst(its, n) ==
  IF n = 0 THEN 0 ELSE SumOfFirst(its, n - 1) + its[n].totalPrice

ItemsSum(its) == SumOfFirst(its, Len(its))

\* C7: when some line carries an admissible labelled total, totalAmount is
\* such a declared amount and not the sum of the items: 25.50 for items
\* summing to 30.00 with a line 合计: ¥25.50, 15.0 for a line 总计 ¥15.0.
C7_DeclaredTotalWins ==
  phase = "totalled" =>
    /\ AllDeclaredTotals(transcript) /= {} =>
         totalAmount \in AllDeclaredTotals(transcript)
    /\ transcript = TextPrecedence =>
         ItemsSum(items) = 3000 /\ totalAmount = 2550
    /\ transcript = TextTotal => totalAmount = 2550
    /\ transcript = TextFormats => totalAmount = 1500

C7_Witness ==
  /\ phase = "totalled"
  /\ transcript = TextPrecedence
  /\ ItemsSum(items) = 3000
  /\ totalAmount = 2550

\* C8: when no line carries an admissible labelled total, totalAmount is the
\* sum of totalPrice over the items, 0 when there are none; totalAmount is
\* always either a declared amount or that sum.
C8_FallbackSum ==
  phase = "totalled" =>
    /\ AllDeclaredTotals(transcript) = {} =>
         /\ totalAmount = ItemsSum(items)
         /\ items = <<>> => totalAmount = 0
    /\ totalAmount \in AllDeclaredTotals(transcript) \cup {ItemsSum(items)}
    /\ transcript = Join(<<LineGoodC, LineFive>>) =>
         Len(items) = 2 /\ totalAmount = 2500

\* Two items and a labelled amount that is not below 100000.
C8_Witness ==
  /\ phase = "totalled"
  /\ transcript = Join(<<LineGoodC, LineHejiBig>>)
  /\ LabelledAmounts(LineHejiBig) = {10000000}
  /\ items = <<Item(<<"SHANG", "PIN", "C">>, 1000, 2, 2000)>>
  /\ totalAmount = 2000

\* C9: the lines are scanned in document order, noise lines included; the
\* first line with an admissible labelled amount gives totalAmount, lines
\* with inadmissible amounts before it are passed over and no later line
\* changes it.
C9_FirstDeclaredWins ==
  phase = "totalled" =>
    \A i \in 1..Len(Split(transcript)) :
      (/\ DeclaredTotals(Split(transcript)[i]) /= {}
       /\ \A j \in 1..(i - 1) : DeclaredTotals(Split(transcript)[j]) = {})
      => totalAmount \in DeclaredTotals(Split(transcript)[i])

\* A labelled 0, a labelled 100000, then two admissible totals, all of them
\* on noise lines: the third line gives the total.
C9_Witness ==
  /\ phase = "totalled"
  /\ transcript = TextScan
  /\ LabelledAmounts(LineHejiZero) = {0}
  /\ LabelledAmounts(LineHejiBig) = {10000000}
  /\ isNonItemLine(LineZongji) /\ isNonItemLine(LineHeji)
  /\ totalAmount = 1500

\* Every line that is not blank is classified as noise.
AllNoise(t) ==
  \A i \in 1..Len(NonBlank(Split(t))) :
    isNonItemLine(Trim(NonBlank(Split(t))[i]))

\* C10 as stated: an empty or all-noise transcript gives items = [] and
\* totalAmount = 0.
C10_Original ==
  (phase = "totalled" /\ AllNoise(transcript)) =>
    items = <<>> /\ totalAmount = 0

\* C10: an empty or all-noise transcript gives items = []; totalAmount is 0
\* unless a line carries an admissible labelled total, and then it is such
\* a declared amount.
C10_AllNoise ==
  (phase = "totalled" /\ AllNoise(transcript)) =>
    /\ items = <<>>
    /\ AllDeclaredTotals(transcript) = {} => totalAmount = 0
    /\ AllDeclaredTotals(transcript) /= {} =>
         totalAmount \in AllDeclaredTotals(transcript)

C10_Witness ==
  /\ phase = "totalled"
  /\ transcript = Join(<<LineThanks, LineHejiBig>>)
  /\ AllNoise(transcript)
  /\ items = <<>>
  /\ totalAmount = 0

(***************************************************************************)
(* Properties of recognizeReceipt (Spec).                                  *)
(***************************************************************************)
\* The engine calls a request has issued: the settled ones and those in flight.
Invocations(r) == Len(calls[r]) + inFlight[r]

IsData(x) == x \in EngineData
IsFailure(x) == x \in EngineErrors
LastCall(r) == calls[r][Len(calls[r])]

\* C2: the engine is invoked once when the first pass's confidence is >= 60,
\* twice when it is < 60, and never more than twice.
C2_EngineInvocations ==
  \A r \in Requests :
    /\ Invocations(r) <= 2
    /\ (Len(calls[r]) >= 1 /\ IsData(calls[r][1])) =>
         /\ calls[r][1].confidence >= 60 => Invocations(r) = 1
         /\ calls[r][1].confidence < 60 => Invocations(r) = 2

\* One request done after one call of confidence 60, another done after a
\* retry whose confidence is below 60 too.
C2_Witness ==
  \E r1, r2 \in Requests :
    /\ pc[r1] = "done" /\ Len(calls[r1]) = 1 /\ calls[r1][1].confidence = 60
    /\ pc[r2] = "done" /\ Len(calls[r2]) = 2 /\ calls[r2][1].confidence = 50
    /\ calls[r2][2].confidence = 40

\* C3: the text of the result, and the items and the total parsed from it,
\* are those of the first pass, also when the retry's confidence is adopted.
C3_FirstPassText ==
  \A r \in Requests :
    pc[r] = "done" =>
      /\ result[r].text = calls[r][1].text
      /\ result[r].items = parseReceiptText(calls[r][1].text)
      /\ result[r].totalAmount
           = extractTotalAmount(calls[r][1].text, result[r].items)

\* First pass 50, retry 70 with another text: confidence 70, the text and
\* the items of the first pass.
C3_Witness ==
  \E r \in Requests :
    /\ pc[r] = "done" /\ Len(calls[r]) = 2
    /\ calls[r][1].confidence = 50 /\ calls[r][2].confidence = 70
    /\ calls[r][2].text /= calls[r][1].text
    /\ result[r].confidence = 70
    /\ result[r].text = calls[r][1].text
    /\ result[r].items /= parseReceiptText(calls[r][2].text)

\* C4: the confidence of the result is the first pass's when there was no
\* retry, and with a retry the retry's if strictly greater, else the first
\* pass's: the maximum of the two, never below the first pass's.
C4_Confidence ==
  \A r \in Requests :
    pc[r] = "done" =>
      /\ Len(calls[r]) = 1 => result[r].confidence = calls[r][1].confidence
      /\ Len(calls[r]) = 2 =>
           /\ calls[r][2].confidence > calls[r][1].confidence =>
                result[r].confidence = calls[r][2].confidence
           /\ calls[r][2].confidence <= calls[r][1].confidence =>
                result[r].confidence = calls[r][1].confidence
           /\ result[r].confidence
                = Max(calls[r][1].confidence, calls[r][2].confidence)
      /\ result[r].confidence >= calls[r][1].confidence

\* A retry whose confidence is lower than the first pass's.
C4_Witness ==
  \E r \in Requests :
    /\ pc[r] = "done" /\ Len(calls[r]) = 2
    /\ calls[r][1].confidence = 50 /\ calls[r][2].confidence = 40
    /\ result[r].confidence = 50

\* C5: when a call of the engine fails the request rejects with an error of
\* message 'OCR识别失败', returns no result and calls the engine no more; a
\* request ends with a result or with an error, never both.
C5_HardError ==
  \A r \in Requests :
    /\ (\E i \in 1..Len(calls[r]) : IsFailure(calls[r][i])) =>
         /\ pc[r] = "failed"
         /\ error[r] /= None /\ error[r].message = WrappedMessage
         /\ result[r] = None
         /\ inFlight[r] = 0
         /\ \A i \in 1..(Len(calls[r]) - 1) : ~IsFailure(calls[r][i])
    /\ pc[r] = "done" => result[r] /= None /\ error[r] = None
    /\ pc[r] = "failed" => result[r] = None /\ error[r] /= None
    /\ pc[r] \notin {"done", "failed"} => result[r] = None /\ error[r] = None

\* The retry fails after a first pass that succeeded.
C5_Witness ==
  \E r \in Requests :
    /\ pc[r] = "failed"
    /\ Len(calls[r]) = 2 /\ IsData(calls[r][1]) /\ IsFailure(calls[r][2])
    /\ result[r] = None

\* C6 as stated: the error the caller observes is the error the engine
\* raised, same identity and message.
C6_Original ==
  \A r \in Requests : pc[r] = "failed" => error[r] = LastCall(r)

\* C6: the error the caller observes is a new error made by recognizeReceipt,
\* with the message 'OCR识别失败' whatever the engine's error was; it is
\* never the engine's error.
C6_WrappedError ==
  \A r \in Requests :
    pc[r] = "failed" =>
      /\ IsFailure(LastCall(r))
      /\ error[r].origin = "recognizeReceipt"
      /\ error[r].message = WrappedMessage
      /\ error[r] /= LastCall(r)

\* The engine fails with 'OCR failed', the caller sees 'OCR识别失败'.
C6_Witness ==
  \E r \in Requests :
    /\ pc[r] = "failed"
    /\ LastCall(r).message = "OCR failed"
    /\ error[r].message = WrappedMessage

(***************************************************************************)
(* Properties of the line classifier and of the item extraction            *)
(* (ParseSpec).                                                            *)
(***************************************************************************)
\* The aggregate-row keywords: 合计 总计 小计 total subtotal 应收 实收 找零
\* change.
AggregateKeywords ==
  { <<"HE", "JI">>, <<"ZONG", "JI">>, <<"XIAO", "JI">>,
    <<"t", "o", "t", "a", "l">>, <<"s", "u", "b", "t", "o", "t", "a", "l">>,
    <<"YING", "SHOU">>, <<"SHI2", "SHOU">>,
    <<"ZHAO", "LING">>, <<"c", "h", "a", "n", "g", "e">> }

BeginsWithAggregate(line) ==
  \E kw \in AggregateKeywords : MatchesAt(line, 1, kw)

\* The items of the lines from index i on, the lines that begin with an
\* aggregate-row keyword giving none.
RECURSIVE ItemsSkippingAggregates(_, _)
ItemsSkippingAggregates(lines, i) ==
  IF i > Len(lines) THEN <<>>
  ELSE (IF BeginsWithAggregate(Trim(lines[i])) THEN <<>>
        ELSE ParseLine(Trim(lines[i]), lines, i))
       \o ItemsSkippingAggregates(lines, i + 1)

\* C11: a line that begins with an aggregate-row keyword (合计, 总计, 小计,
\* total, subtotal, 应收, 实收, 找零, change) gives no item of its own, also
\* when an extraction pattern matches its numbers: the items are those of
\* the other lines.
C11_AggregateLines ==
  phase /= "input" =>
    /\ items = ItemsSkippingAggregates(NonBlank(Split(transcript)), 1)
    /\ transcript = TextAggregate =>
         items = <<Item(<<"PING", "GUO">>, 500, 2, 1000)>>

\* 苹果 5.00 2 10.00 followed by 合计 32.50, Total 32.50, 找零 3.00 and
\* change 2; pattern 2 matches Total 32.50.
C11_Witness ==
  /\ phase = "parsed"
  /\ transcript = TextAggregate
  /\ Match2(CleanLine(LineTotalEn)) /= <<>>
  /\ BeginsWithAggregate(LineTotalEn) /\ BeginsWithAggregate(LineZhaoling)
  /\ items = <<Item(<<"PING", "GUO">>, 500, 2, 1000)>>

\* C12 as stated: for the transcript 收据标题 / 店铺地址：某某路123号 /
\* 电话：123-456-7890 / 苹果 5.00 2 10.00 / 谢谢惠顾 the title, address,
\* phone and closing lines give no item, and parseReceiptText returns
\* exactly one item, that of the item line.
C12_Original ==
  (phase /= "input" /\ transcript = TextFilter) =>
    items = <<Item(<<"PING", "GUO">>, 500, 2, 1000)>>

\* What parseReceiptText returns for it: the address line is no noise line
\* and pattern 2 takes the street number for a price.
C12_Witness ==
  /\ phase = "parsed"
  /\ transcript = TextFilter
  /\ ~isNonItemLine(LineAddress)
  /\ items = << Item(<<"DIAN", "PU", "DI", "ZHI", " ", "MOU", "MOU", "LU">>,
                     12300, 1, 12300),
                Item(<<"PING", "GUO">>, 500, 2, 1000) >>

\* C13 as stated: a tabular receipt of a title line, a column-header line
\* without numbers, k rows '<name> <unitPrice> <quantity> <totalPrice>' and
\* a total line gives exactly the k items of the rows, in row order; 苹果
\* 5.00 2 10.00 is items[0].
C13_Original ==
  (phase /= "input" /\ transcript = TextTabular) =>
    items = << Item(<<"PING", "GUO">>, 500, 2, 1000),
               Item(<<"XIANG", "JIAO">>, 350, 3, 1050),
               Item(<<"NIU", "NAI">>, 1200, 1, 1200) >>

\* What parseReceiptText returns for it: pattern 3 makes an item of the
\* column-header line, priced with the first number of the first row.
C13_Witness ==
  /\ phase = "parsed"
  /\ transcript = TextTabular
  /\ Len(items) = 4
  /\ items[1] = Item(CleanLine(LineColumns), 500, 1, 500)
  /\ items[2] = Item(<<"PING", "GUO">>, 500, 2, 1000)
  /\ items[3] = Item(<<"XIANG", "JIAO">>, 350, 3, 1050)
  /\ items[4] = Item(<<"NIU", "NAI">>, 1200, 1, 1200)

\* C14 as stated: for the transcript 商品A 0 1 0 / 商品B -5 2 -10 /
\* 商品C 10 2 20 parseReceiptText returns exactly one item, named 商品C; the
\* lines of 商品A and 商品B give no item by any pattern.
C14_Original ==
  (phase /= "input" /\ transcript = TextValidate) =>
    items = <<Item(<<"SHANG", "PIN", "C">>, 1000, 2, 2000)>>

\* What parseReceiptText returns for it: the line of 商品A by pattern 3,
\* priced 5 from the next line, and the line of 商品B by pattern 2, the
\* minus sign left in the name.
C14_Witness ==
  /\ phase = "parsed"
  /\ transcript = TextValidate
  /\ items = << Item(LineZero, 500, 1, 500),
                Item(<<"SHANG", "PIN", "B", " ", "-">>, 500, 1, 500),
                Item(<<"SHANG", "PIN", "C">>, 1000, 2, 2000) >>

\* The indices of the lines, among the non-blank ones, that are no noise.
EligibleLines(lines) ==
  {i \in 1..Len(lines) : ~isNonItemLine(Trim(lines[i]))}

\* f maps the positions of its to lines in strictly increasing order, and
\* each item is the one extractItemFromLine returns for its line.
MapsInOrder(f, its, lines) ==
  /\ \A j, k \in 1..Len(its) : j < k => f[j] < f[k]
  /\ \A k \in 1..Len(its) :
       <<its[k]>> = extractItemFromLine(Trim(lines[f[k]]), lines, f[k])

InLineOrder(its, lines) ==
  /\ Len(its) <= Cardinality(EligibleLines(lines))
  /\ \E f \in [1..Len(its) -> EligibleLines(lines)] :
       MapsInOrder(f, its, lines)

\* C17: the items are in the order of the lines they come from and a line
\* gives at most one item: a strictly increasing map sends the positions of
\* the items to non-blank, non-noise lines, so there are at most as many
\* items as such lines.
C17_LineOrder ==
  phase /= "input" => InLineOrder(items, NonBlank(Split(transcript)))

\* 便利店收据 / 可乐 ¥3.5 / 数量 x2 / 面包 ¥8.0 / 总计 ¥15.0: three items, of
\* the second, third and fourth line.
C17_Witness ==
  /\ phase = "parsed"
  /\ transcript = TextFormats
  /\ EligibleLines(NonBlank(Split(transcript))) = {2, 3, 4}
  /\ items = << Item(<<"KE", "LE">>, 350, 2, 700),
                Item(<<"SHU", "LIANG", " ", "x">>, 200, 1, 200),
                Item(<<"MIAN", "BAO">>, 800, 2, 1600) >>

\* The item of a line: that of pattern 1 (A) if its candidate is valid,
\* else that of pattern 2 (B) if valid, else that of pattern 3 (C) if valid,
\* else none.
ItemInOrder(cleanLine, lines, i) ==
  IF Pattern1(cleanLine) /= <<>> THEN Pattern1(cleanLine)
  ELSE IF Pattern2(cleanLine, lines, i) /= <<>>
       THEN Pattern2(cleanLine, lines, i)
       ELSE IF Pattern3(cleanLine, lines, i) /= <<>>
            THEN Pattern3(cleanLine, lines, i)
            ELSE <<>>

RECURSIVE ItemsInOrder(_, _)
ItemsInOrder(lines, i) ==
  IF i > Len(lines) THEN <<>>
  ELSE (IF isNonItemLine(Trim(lines[i])) THEN <<>>
        ELSE ItemInOrder(CleanLine(Trim(lines[i])), lines, i))
       \o ItemsInOrder(lines, i + 1)

\* C20: on each non-noise line the patterns are tried in the order A, B, C;
\* the first whose candidate passes isValidItem gives the line's item, a
\* pattern that matches with an invalid candidate falls through to the next
\* one on the same line, and a line on which all three fail gives nothing.
C20_StrategyOrder ==
  phase /= "input" =>
    items = ItemsInOrder(NonBlank(Split(transcript)), 1)

\* 苹果 10 2 21.5 / 牛奶: pattern 1 matches the first line but 21.5 is off
\* 10 x 2, pattern 2 gives its item; the second line fails all three.
C20_Witness ==
  /\ phase = "parsed"
  /\ transcript = TextFallThrough
  /\ Match1(CleanLine(LineOver)) /= <<>>
  /\ Pattern1(CleanLine(LineOver)) = <<>>
  /\ ItemInOrder(CleanLine(LineMilk), <<LineOver, LineMilk>>, 2) = <<>>
  /\ items = <<Item(<<"PING", "GUO">>, 1000, 1, 1000)>>

\* The aggregate-row keywords of the blacklist: subtotal, total, change,
\* due, discount, 小计, 合计, 总计, 找零, 应收, 实收, 优惠, 折扣.
AggregateBlacklist ==
  { <<"s", "u", "b", "t", "o", "t", "a", "l">>, <<"t", "o", "t", "a", "l">>,
    <<"c", "h", "a", "n", "g", "e">>, <<"d", "u", "e">>,
    <<"d", "i", "s", "c", "o", "u", "n", "t">>,
    <<"XIAO", "JI">>, <<"HE", "JI">>, <<"ZONG", "JI">>, <<"ZHAO", "LING">>,
    <<"YING", "SHOU">>, <<"SHI2", "SHOU">>, <<"YOU", "HUI">>,
    <<"ZHE", "KOU">> }

ContainsAggregate(name) ==
  \E kw \in AggregateBlacklist :
    \E p \in 1..Len(name) : MatchesAt(name, p, kw)

\* C16 as stated: no item has a name that equals or contains an
\* aggregate-row keyword (subtotal, total, change, due, discount, 小计, 合计,
\* 总计, 找零, 应收, 实收, 优惠, 折扣); a line 'Grand total 25.00' gives no
\* item.
C16_Original ==
  /\ \A i \in 1..Len(items) : ~ContainsAggregate(items[i].name)
  /\ (phase /= "input" /\ transcript = LineGrandTotal) => items = <<>>

\* What parseReceiptText returns for 'Grand total 25.00'.
C16_Witness ==
  /\ phase = "parsed"
  /\ transcript = LineGrandTotal
  /\ items = <<Item(SubSeq(LineGrandTotal, 1, 11), 2500, 1, 2500)>>

(***************************************************************************)
(* Properties of isValidItem (ValidateSpec).                               *)
(***************************************************************************)
\* The quantity of a candidate is Num(c) / Den(c).
Num(c) == IF IsFraction(c) THEN c.num ELSE c.quantity
Den(c) == IF IsFraction(c) THEN c.den ELSE 1

\* The name, positivity and ceiling rules.
OtherRulesPass(c) ==
  /\ Len(c.name) >= 1 /\ Len(c.name) <= 100
  /\ \A invalid \in invalidNames : ~Includes(c.name, invalid)
  /\ c.unitPrice > 0 /\ Num(c) > 0 /\ c.totalPrice > 0
  /\ c.unitPrice <= 1000000 /\ c.totalPrice <= 10000000

\* |totalPrice - unitPrice * quantity| <= max(0.01, 0.05 * unitPrice * quantity)
WithinTolerance(c) ==
  20 * Abs(c.totalPrice * Den(c) - c.unitPrice * Num(c))
    <= Max(20 * Den(c), c.unitPrice * Num(c))

AllAnswered(r) ==
  /\ Len(calls[r]) >= 1
  /\ inFlight[r] = 0
  /\ \A i \in 1..Len(calls[r]) : IsData(calls[r][i])

IsItemList(its) ==
  \A i \in 1..Len(its) :
    DOMAIN its[i] = {"name", "unitPrice", "quantity", "totalPrice"}

\* C19: once the engine has returned a transcript the parsing never fails:
\* a request rejects only when an engine call failed, and a request whose
\* engine calls all returned data ends with a result holding an item list,
\* possibly empty, and a number; a line that fails every pattern is dropped.
C19_ParsingNeverFails ==
  \A r \in Requests :
    /\ pc[r] = "failed" => IsFailure(LastCall(r))
    /\ AllAnswered(r) =>
         /\ pc[r] = "done"
         /\ error[r] = None
         /\ IsItemList(result[r].items)
         /\ result[r].totalAmount \in Nat

\* 谢谢惠顾 / 牛奶: the second line is no noise and gives no item; the
\* result has no item and the total 0.
C19_Witness ==
  \E r \in Requests :
    /\ pc[r] = "done"
    /\ AllAnswered(r)
    /\ result[r].text = Join(<<LineThanks, LineMilk>>)
    /\ ~isNonItemLine(LineMilk)
    /\ result[r].items = <<>>
    /\ result[r].totalAmount = 0

(***************************************************************************)
(* Properties of the neighbour lookups of extractItemFromLine (ParseSpec). *)
(***************************************************************************)
\* Line i is no noise, pattern 1 (A) gives no item on it and pattern 2 (B)
\* gives one.
IsStrategyB(lines, i) ==
  /\ i \in 1..Len(lines)
  /\ ~isNonItemLine(Trim(lines[i]))
  /\ Pattern1(CleanLine(Trim(lines[i]))) = <<>>
  /\ Pattern2(CleanLine(Trim(lines[i])), lines, i) /= <<>>

StrategyBLines(lines) == {i \in 1..Len(lines) : IsStrategyB(lines, i)}

HasMarker(lines, i) ==
  i \in 1..Len(lines) /\ MatchQuantity(Trim(lines[i])) /= <<>>

\* The marker of the line before, else that of the line after, else 1.
NeighbourQuantity(lines, i) ==
  IF HasMarker(lines, i - 1) THEN MatchQuantity(Trim(lines[i - 1]))[1]
  ELSE IF HasMarker(lines, i + 1) THEN MatchQuantity(Trim(lines[i + 1]))[1]
       ELSE 1

IsItemOf(it, lines, i) ==
  <<it>> = extractItemFromLine(Trim(lines[i]), lines, i)

QuantityFromNeighbours(its, lines) ==
  \A i \in 1..Len(lines) :
    IsStrategyB(lines, i) =>
      \E k \in 1..Len(its) :
        /\ its[k].quantity = NeighbourQuantity(lines, i)
        /\ its[k].totalPrice = its[k].unitPrice * its[k].quantity
        /\ IsItemOf(its[k], lines, i)

\* C21: the item pattern 2 (B) gives for a line has the quantity of the
\* marker on the line just before if that line has one, otherwise that of
\* the marker on the line just after, otherwise 1, and its totalPrice is
\* exactly unitPrice * quantity.
C21_NeighbourQuantity ==
  phase = "parsed" =>
    QuantityFromNeighbours(items, NonBlank(Split(transcript)))

\* 数量 x2 / 可乐 ¥3.5 / Qty 3: the marker before wins, 可乐 has quantity 2;
\* the first line has no line before and no marker after, quantity 1.
C21_Witness ==
  /\ phase = "parsed"
  /\ transcript = TextBothMarkers
  /\ StrategyBLines(NonBlank(Split(transcript))) = {1, 2, 3}
  /\ HasMarker(NonBlank(Split(transcript)), 1)
  /\ HasMarker(NonBlank(Split(transcript)), 3)
  /\ items[2] = Item(<<"KE", "LE">>, 350, 2, 700)
  /\ items[1].quantity = 1

\* The name of the item of line i is followed by whitespace on the line.
NameEndsAtSpace(its, lines, i) ==
  \A k \in 1..Len(its) :
    IsItemOf(its[k], lines, i) =>
      IsSpace(CharAt(CleanLine(Trim(lines[i])), Len(its[k].name) + 1))

\* C22 as stated: pattern 2 (B) takes as unit price only a number that
\* follows the name after whitespace, optionally prefixed by ¥; digits
\* inside the name token are not the price: 'Cola500ml 3.50' gives an item
\* with unitPrice 3.50 whose name keeps 'Cola500ml'.
C22_Original ==
  phase /= "input" =>
    /\ \A i \in 1..Len(NonBlank(Split(transcript))) :
         IsStrategyB(NonBlank(Split(transcript)), i) =>
           NameEndsAtSpace(items, NonBlank(Split(transcript)), i)
    /\ transcript = LineCola500 =>
         items = <<Item(SubSeq(LineCola500, 1, 9), 350, 1, 350)>>

\* What parseReceiptText returns for 'Cola500ml 3.50': the name Cola and the
\* unit price 500.
C22_Witness ==
  /\ phase = "parsed"
  /\ transcript = LineCola500
  /\ StrategyBLines(NonBlank(Split(transcript))) = {1}
  /\ items = <<Item(<<"C", "o", "l", "a">>, 50000, 1, 50000)>>

\* The item of line i comes from pattern 3 (C): the line is no noise,
\* patterns 1 and 2 give none and pattern 3 gives one.
IsStrategyC(lines, i) ==
  /\ i \in 1..Len(lines)
  /\ ~isNonItemLine(Trim(lines[i]))
  /\ Pattern1(CleanLine(Trim(lines[i]))) = <<>>
  /\ Pattern2(CleanLine(Trim(lines[i])), lines, i) = <<>>
  /\ Pattern3(CleanLine(Trim(lines[i])), lines, i) /= <<>>

StrategyCLines(lines) == {i \in 1..Len(lines) : IsStrategyC(lines, i)}

\* A letter or an ideograph, 2 to 50 characters, not only digits.
PlausibleName(s) ==
  /\ \E p \in 1..Len(s) : IsLetterOrHan(s[p])
  /\ Len(s) >= 2 /\ Len(s) <= 50
  /\ ~(\A p \in 1..Len(s) : IsDigit(s[p]))

HasAmount(s) == \E p \in 1..Len(s) : IsDigit(s[p])

\* The first number of the line.
AmountOf(s) == NumberAt(s, Min({p \in 1..Len(s) : IsDigit(s[p])})).value

PairedWithNextLine(its, lines) ==
  \A i \in 1..Len(lines) :
    IsStrategyC(lines, i) =>
      /\ PlausibleName(CleanLine(Trim(lines[i])))
      /\ i < Len(lines)
      /\ HasAmount(Trim(lines[i + 1]))
      /\ \E k \in 1..Len(its) :
           its[k] = Item(CleanLine(Trim(lines[i])),
                         AmountOf(Trim(lines[i + 1])), 1,
                         AmountOf(Trim(lines[i + 1])))

\* C23: pattern 3 (C) gives the item of a line only if patterns 1 and 2 gave
\* none, the cleaned line is a plausible product name (a letter or an
\* ideograph, 2 to 50 characters, not only digits) and the next line exists
\* and holds an amount; the item then has the cleaned line as name, the
\* quantity 1 and totalPrice = unitPrice = that amount.  The last line never
\* gets an item from pattern 3.
C23_TwoLinePairing ==
  phase = "parsed" =>
    /\ PairedWithNextLine(items, NonBlank(Split(transcript)))
    /\ ~IsStrategyC(NonBlank(Split(transcript)),
                    Len(NonBlank(Split(transcript))))

\* 苹果 5.00 2 10.00 / 可乐 ¥3.5 / 牛奶 / ¥12.00: the third line has no number,
\* patterns 1 and 2 fail on it, and it takes the 12.00 of the fourth line;
\* the fourth, the last line, gets its item from pattern 2.
C23_Witness ==
  /\ phase = "parsed"
  /\ transcript = TextMixed
  /\ StrategyCLines(NonBlank(Split(transcript))) = {3}
  /\ StrategyBLines(NonBlank(Split(transcript))) = {2, 4}
  /\ items[3] = Item(<<"NIU", "NAI">>, 1200, 1, 1200)

\* The quantity of the candidate is a whole number >= 1.
WholeQuantity(c) == Num(c) % Den(c) = 0 /\ Num(c) >= Den(c)

WithinCeilings(it) == it.unitPrice <= 1000000 /\ it.totalPrice <= 10000000

\* C25: a candidate with unitPrice > 10000 or totalPrice > 100000 is
\* rejected and one at unitPrice = 10000 and totalPrice = 100000 is not, so
\* no item is above a ceiling: of the rows 苹果 10000 10 100000, 苹果 10000 10
\* 100000.01 and 苹果 10000.01 1 10000.01 the first is an item as it stands,
\* the second only as 苹果 at 10000 from pattern 2, the third is none; and
\* 可乐 ¥9000 with the quantity 12 of the next line, a product of 108000, is
\* no item of pattern 2.
C25_Ceilings ==
  phase /= "input" =>
    /\ \A k \in 1..Len(items) : WithinCeilings(items[k])
    /\ transcript = TextCeilings =>
         items = << Item(<<"PING", "GUO">>, 1000000, 10, 10000000),
                    Item(<<"PING", "GUO">>, 1000000, 1, 1000000) >>
    /\ transcript = TextProductOver =>
         /\ ~IsStrategyB(NonBlank(Split(transcript)), 1)
         /\ \A k \in 1..Len(items) : items[k].unitPrice /= 900000

\* The row at both ceilings is an item; the candidates of patterns 1 and 2
\* of the third row have a unit price of 10000.01 and give nothing.
C25_Witness ==
  /\ phase = "parsed"
  /\ transcript = TextCeilings
  /\ items[1] = Item(<<"PING", "GUO">>, 1000000, 10, 10000000)
  /\ Match1(CleanLine(NonBlank(Split(transcript))[3]))[1].unitPrice = 1000001
  /\ Match2(CleanLine(NonBlank(Split(transcript))[3]))[1].price = 1000001
  /\ Len(items) = 2

(***************************************************************************)
(* The engine calls of one request (Spec).                                 *)
(***************************************************************************)
\* C26: a request never has more than one engine call in flight: the retry
\* is issued only after the first call has completed with a result, and the
\* text is parsed, and the request answered, only after the last call the
\* request issued has completed.
C26_OneCallInFlight ==
  \A r \in Requests :
    /\ inFlight[r] \in {0, 1}
    /\ Invocations(r) = 2 => IsData(calls[r][1])
    /\ pc[r] = "retry" => (Len(calls[r]) = 1 /\ inFlight[r] = 1)
    /\ (result[r] /= None \/ error[r] /= None) =>
         (inFlight[r] = 0 /\ Len(calls[r]) = Invocations(r))

\* One request awaits its retry, with the reply of its first call in hand,
\* while the other request awaits its first call.
C26_Witness ==
  \E r1, r2 \in Requests :
    /\ pc[r1] = "retry" /\ inFlight[r1] = 1
    /\ Len(calls[r1]) = 1 /\ IsData(calls[r1][1])
    /\ result[r1] = None
    /\ pc[r2] = "first" /\ inFlight[r2] = 1

\* The first pass of the request returned data with a confidence below 60
\* and its retry failed.
RetryFailed(r) ==
  /\ Len(calls[r]) = 2
  /\ IsData(calls[r][1]) /\ calls[r][1].confidence < 60
  /\ IsFailure(calls[r][2])

\* C27: when the first pass succeeds with a confidence below 60 and the
\* retry then fails, the request fails with an error: the text of the first
\* pass is not parsed into a result and no result is returned.
C27_RetryFailureFails ==
  \A r \in Requests :
    RetryFailed(r) =>
      /\ pc[r] = "failed"
      /\ result[r] = None
      /\ error[r] = Caught(calls[r][2])

\* A first pass with the confidence 40 and a text that has items, a failed
\* retry, and the request rejected.
C27_Witness ==
  \E r \in Requests :
    /\ RetryFailed(r)
    /\ calls[r][1].confidence = 40
    /\ parseReceiptText(calls[r][1].text) /= <<>>
    /\ text[r] = calls[r][1].text
    /\ pc[r] = "failed"
    /\ result[r] = None

(***************************************************************************)
(* The lines the neighbour lookups read (ParseSpec).                       *)
(***************************************************************************)
\* Line i is a pattern-2 line with the quantity of line i + 1, or a
\* pattern-3 line, which has the price of line i + 1.
TakesFromNext(lines, i) ==
  \/ /\ ~HasMarker(lines, i - 1) /\ HasMarker(lines, i + 1)
     /\ IsStrategyB(lines, i)
  \/ IsStrategyC(lines, i)

\* The item of a line is followed in its by whatever the next line gives
\* when examined on its own.
FollowedBy(its, item, next) ==
  \E k \in 1..Len(its) :
    /\ <<its[k]>> = item
    /\ next /= <<>> => (k < Len(its) /\ <<its[k + 1]>> = next)

NextLineStillExamined(its, lines, i) ==
  FollowedBy(its, extractItemFromLine(Trim(lines[i]), lines, i),
             ParseLine(Trim(lines[i + 1]), lines, i + 1))

\* C28: a neighbour lookup does not consume the line it reads: after line i
\* has taken its quantity (pattern 2) or its price (pattern 3) from line
\* i + 1, line i + 1 is still examined as a line of its own, so a marker
\* line or a price line can give an item too, and the items are as many as
\* the non-noise lines that give one.
C28_NeighbourNotConsumed ==
  phase = "parsed" =>
    /\ \A i \in 1..Len(NonBlank(Split(transcript))) :
         TakesFromNext(NonBlank(Split(transcript)), i) =>
           NextLineStillExamined(items, NonBlank(Split(transcript)), i)
    /\ Len(items) =
         Cardinality({i \in EligibleLines(NonBlank(Split(transcript))) :
                        extractItemFromLine(
                          Trim(NonBlank(Split(transcript))[i]),
                          NonBlank(Split(transcript)), i) /= <<>>})

\* 苹果 5.00 2 10.00 / 可乐 ¥3.5 / 牛奶 / ¥12.00: 牛奶 takes the 12.00 of the
\* last line and the last line gives an item of 12.00 itself.
C28_Witness ==
  /\ phase = "parsed"
  /\ transcript = TextMixed
  /\ TakesFromNext(NonBlank(Split(transcript)), 3)
  /\ items[3] = Item(<<"NIU", "NAI">>, 1200, 1, 1200)
  /\ items[4] = Item(<<"YEN">>, 1200, 1, 1200)

\* Some item of line i has the quantity q.
LineHasQuantity(its, lines, i, q) ==
  \E k \in 1..Len(its) : IsItemOf(its[k], lines, i) /\ its[k].quantity = q

\* Lines i and i + 2 are pattern-2 lines, line i + 1 between them has a
\* marker and the line before line i has none.
MarkerBetween(lines, i) ==
  /\ HasMarker(lines, i + 1)
  /\ ~HasMarker(lines, i - 1)
  /\ IsStrategyB(lines, i) /\ IsStrategyB(lines, i + 2)

\* C29: a marker line between two lines handled by pattern 2 (B) gives its
\* quantity to both: to the line below as its previous line, and to the
\* line above as its next line whenever the line before that one has no
\* marker.
C29_MarkerAppliedTwice ==
  phase = "parsed" =>
    \A i \in 1..Len(NonBlank(Split(transcript))) :
      MarkerBetween(NonBlank(Split(transcript)), i) =>
        /\ LineHasQuantity(items, NonBlank(Split(transcript)), i,
             MatchQuantity(Trim(NonBlank(Split(transcript))[i + 1]))[1])
        /\ LineHasQuantity(items, NonBlank(Split(transcript)), i + 2,
             MatchQuantity(Trim(NonBlank(Split(transcript))[i + 1]))[1])

\* 便利店收据 / 可乐 ¥3.5 / 数量 x2 / 面包 ¥8.0 / 总计 ¥15.0: 可乐 and 面包 both
\* have the quantity 2 of the line between them.
C29_Witness ==
  /\ phase = "parsed"
  /\ transcript = TextFormats
  /\ MarkerBetween(NonBlank(Split(transcript)), 2)
  /\ items[1] = Item(<<"KE", "LE">>, 350, 2, 700)
  /\ items[3] = Item(<<"MIAN", "BAO">>, 800, 2, 1600)

\* Line i is a plausible name on which patterns 1 and 2 give nothing, and
\* the non-blank line after it is a noise line with an amount that would do
\* as a price.
NameAboveNoise(lines, i) ==
  /\ i < Len(lines)
  /\ isNonItemLine(Trim(lines[i + 1]))
  /\ HasAmount(Trim(lines[i + 1]))
  /\ ~isNonItemLine(Trim(lines[i]))
  /\ PlausibleName(CleanLine(Trim(lines[i])))
  /\ Pattern1(CleanLine(Trim(lines[i]))) = <<>>
  /\ Pattern2(CleanLine(Trim(lines[i])), lines, i) = <<>>
  /\ isValidItem(CleanLine(Trim(lines[i])), AmountOf(Trim(lines[i + 1])), 1,
                 AmountOf(Trim(lines[i + 1])))

\* Line i is a pattern-2 line, a noise line next to it has a marker.
MarkerOnNoise(lines, i) ==
  /\ \/ HasMarker(lines, i - 1) /\ isNonItemLine(Trim(lines[i - 1]))
     \/ /\ ~HasMarker(lines, i - 1)
        /\ HasMarker(lines, i + 1) /\ isNonItemLine(Trim(lines[i + 1]))
  /\ IsStrategyB(lines, i)

\* C30: the neighbour lookups do not look at the noise classification: the
\* lines before and after are the adjacent non-blank lines of the transcript
\* even when isNonItemLine skips them as items, so the amount of a noise line
\* such as a declared total becomes the unit price of the name-only line just
\* above it, and a marker on a noise line sets the quantity of the pattern-2
\* line next to it.
C30_NoiseNeighbours ==
  phase = "parsed" =>
    \A i \in 1..Len(NonBlank(Split(transcript))) :
      /\ NameAboveNoise(NonBlank(Split(transcript)), i) =>
           \E k \in 1..Len(items) :
             items[k] = Item(CleanLine(Trim(NonBlank(Split(transcript))[i])),
                             AmountOf(Trim(NonBlank(Split(transcript))[i + 1])),
                             1,
                             AmountOf(Trim(NonBlank(Split(transcript))[i + 1])))
      /\ MarkerOnNoise(NonBlank(Split(transcript)), i) =>
           LineHasQuantity(items, NonBlank(Split(transcript)), i,
                           NeighbourQuantity(NonBlank(Split(transcript)), i))

\* 可乐 ¥3.5 / 小计 x2 / 牛奶 / a blank line / 合计: ¥25.50: the blank line is
\* dropped, the two noise lines give no item, 可乐 has the quantity 2 of the
\* subtotal line and 牛奶 the price 25.50 of the total line.
C30_Witness ==
  /\ phase = "parsed"
  /\ transcript = TextNoiseNeighbours
  /\ Len(Split(transcript)) = 5
  /\ EligibleLines(NonBlank(Split(transcript))) = {1, 3}
  /\ MarkerOnNoise(NonBlank(Split(transcript)), 1)
  /\ NameAboveNoise(NonBlank(Split(transcript)), 3)
  /\ items = << Item(<<"KE", "LE">>, 350, 2, 700),
                Item(<<"NIU", "NAI">>, 2550, 1, 2550) >>

====
